---------------------------- MODULE Spec2Model ----------------------------
(***************************************************************************)
(* Model of scripts/sam_split_png.py: ImprovedSAMDrawingSplitter.          *)
(*                                                                         *)
(* A mask is a Python dict; the lists of the pipeline hold references to   *)
(* the same dicts, and several stages update a dict in place.  The model   *)
(* therefore keeps a heap of mask objects (heap[id]) and every list of the *)
(* program is a sequence of object ids.                                    *)
(*                                                                         *)
(* Numbers.  Pixel quantities are integers.  stability_score and           *)
(* predicted_iou are exact rationals <<n, d>>.  Scores (area * stability * *)
(* weight) exceed 32 bits and are carried as little-endian sequences of    *)
(* base-10000 limbs.  Thresholds that the code writes as decimal fractions *)
(* are compared by cross-multiplication.                                   *)
(***************************************************************************)
EXTENDS Integers, Sequences, FiniteSets, TLC

(***************************************************************************)
(* Bounds of the model.                                                    *)
(***************************************************************************)
\* most masks one generator pass returns
MaxPerPass == 2
\* longest input list handed to remove_duplicate_masks on its own
MaxDedupLen == 3
\* longest input list handed to the ranker on its own
MaxRankLen == 22
\* longest list handed to the output loop on its own
MaxOutLen == 3
\* longest list handed to detect_info_regions on its own
MaxDetectLen == 3
\* longest list handed to filter_masks_by_engineering_criteria on its own
MaxFilterLen == 2
\* longest list of proposals handed to the post-processing stages on their own
MaxPipeLen == 4

(***************************************************************************)
(* The image (original_image.shape) and the program's constants.           *)
(***************************************************************************)
imageWidth == 1000
imageHeight == 1000
NumGenerators == 2
MaxOutputRegions == 20
Margin == 10
DistanceThreshold == 100

(***************************************************************************)
(* Integer helpers.                                                        *)
(***************************************************************************)
Max(a, b) == IF a >= b THEN a ELSE b
Min(a, b) == IF a <= b THEN a ELSE b

\* int(v * p / 100) for v >= 0: Python's int(v * 0.15) and the like.  The
\* float product truncates to the same integer as the exact one for every
\* v in 0..3000 and every ratio the program uses (0.02 0.05 0.15 0.2 0.25 0.3).
IntPct(v, p) == (v * p) \div 100

RECURSIVE Gcd(_, _)
Gcd(a, b) == IF b = 0 THEN a ELSE Gcd(b, a % b)

RECURSIVE SumSeq(_)
SumSeq(s) == IF s = <<>> THEN 0 ELSE Head(s) + SumSeq(Tail(s))

SeqToSet(s) == {s[k] : k \in 1..Len(s)}

(***************************************************************************)
(* Wide naturals: four base-10000 limbs, least significant first.          *)
(***************************************************************************)
Base == 100 * 100
BigFromInt(x) == <<x % Base, (x \div Base) % Base, x \div (Base * Base), 0>>
\* b * k for 0 <= k <= 200000
BigMulSmall(b, k) ==
    LET t1 == b[1] * k
        t2 == b[2] * k + t1 \div Base
        t3 == b[3] * k + t2 \div Base
        t4 == b[4] * k + t3 \div Base
    IN  <<t1 % Base, t2 % Base, t3 % Base, t4>>
BigLess(a, b) ==
    \/ a[4] < b[4]
    \/ a[4] = b[4] /\ a[3] < b[3]
    \/ a[4] = b[4] /\ a[3] = b[3] /\ a[2] < b[2]
    \/ a[4] = b[4] /\ a[3] = b[3] /\ a[2] = b[2] /\ a[1] < b[1]

(***************************************************************************)
(* Rationals <<n, d>>, d > 0, in lowest terms.                             *)
(***************************************************************************)
RatNorm(n, d) == LET g == Gcd(n, d) IN <<n \div g, d \div g>>
RatAdd(r, s) == RatNorm(r[1] * s[2] + s[1] * r[2], r[2] * s[2])
RECURSIVE RatSum(_)
RatSum(s) == IF s = <<>> THEN <<0, 1>> ELSE RatAdd(Head(s), RatSum(Tail(s)))
\* np.mean / total / len over a non-empty list of rationals
RatMean(s) == LET t == RatSum(s) IN RatNorm(t[1], t[2] * Len(s))

(***************************************************************************)
(* Mask objects.  A key the program reads with .get(key, default) and that *)
(* a dict does not hold is the default here (FALSE, {}, 0).  src is not a  *)
(* key of the dict: it records the generator pass and the proposal the     *)
(* object came from (<<0, 0>>: synthesized by the pipeline).               *)
(***************************************************************************)
NewMask(bbox, area, stab, iou, src) ==
    [bbox |-> bbox, area |-> area, stability_score |-> stab,
     predicted_iou |-> iou, is_info_region |-> FALSE, info_type |-> {},
     is_merged |-> FALSE, is_protected |-> FALSE,
     is_bottom_protected |-> FALSE, is_protected_text |-> FALSE,
     priority_boost |-> 0, text_optimized |-> FALSE, original_count |-> 0,
     src |-> src]

(***************************************************************************)
(* What the segmentation oracle may answer for the image, per generator:   *)
(* generator 1 (stability_score_thresh 0.90) and generator 2 (0.80).       *)
(* Every box lies in the image and has w, h >= 1; area is the pixel count  *)
(* of the mask, which may be smaller than w * h.                           *)
(***************************************************************************)
Proposals ==
    << \* generator 1
       << [bbox |-> <<100, 100, 400, 400>>, area |-> 160000, stab |-> <<9, 10>>, iou |-> <<9, 10>>],
          [bbox |-> <<0, 300, 1000, 700>>, area |-> 700000, stab |-> <<9, 10>>, iou |-> <<9, 10>>],
          [bbox |-> <<100, 820, 200, 100>>, area |-> 20000, stab |-> <<19, 20>>, iou |-> <<9, 10>>],
          [bbox |-> <<480, 400, 80, 80>>, area |-> 6400, stab |-> <<9, 10>>, iou |-> <<19, 20>>],
          [bbox |-> <<820, 200, 150, 300>>, area |-> 45000, stab |-> <<1, 1>>, iou |-> <<9, 10>>],
          [bbox |-> <<5, 500, 100, 100>>, area |-> 10000, stab |-> <<9, 10>>, iou |-> <<9, 10>>] >>,
       \* generator 2
       << [bbox |-> <<110, 110, 400, 400>>, area |-> 150000, stab |-> <<4, 5>>, iou |-> <<4, 5>>],
          [bbox |-> <<600, 850, 200, 100>>, area |-> 18000, stab |-> <<4, 5>>, iou |-> <<4, 5>>],
          [bbox |-> <<565, 400, 80, 80>>, area |-> 6400, stab |-> <<17, 20>>, iou |-> <<4, 5>>],
          [bbox |-> <<430, 350, 300, 300>>, area |-> 6000, stab |-> <<4, 5>>, iou |-> <<4, 5>>],
          [bbox |-> <<580, 350, 200, 300>>, area |-> 5500, stab |-> <<9, 10>>, iou |-> <<17, 20>>],
          [bbox |-> <<220, 830, 140, 100>>, area |-> 14000, stab |-> <<4, 5>>, iou |-> <<4, 5>>],
          [bbox |-> <<500, 200, 10, 500>>, area |-> 5000, stab |-> <<4, 5>>, iou |-> <<4, 5>>],
          [bbox |-> <<800, 5, 150, 150>>, area |-> 22500, stab |-> <<17, 20>>, iou |-> <<4, 5>>] >> >>

\* strictly increasing index sequences of length <= n over 1..m: the
\* proposal lists a pass may return (an unordered collection, listed once)
IncSeqs(m, n) ==
    {s \in UNION {[1..k -> 1..m] : k \in 0..n} :
        \A a \in 1..Len(s) : \A b \in 1..Len(s) : a < b => s[a] < s[b]}

\* the mask dicts generator g returns for the index list s
GenMasks(g, s) ==
    [k \in 1..Len(s) |->
        LET p == Proposals[g][s[k]]
        IN  NewMask(p.bbox, p.area, p.stab, p.iou, <<g, s[k]>>)]

(***************************************************************************)
(* GeometryOps.                                                            *)
(***************************************************************************)
\* the intersection area as calculate_overlap and is_bbox_inside compute
\* it; -1 when the boxes are disjoint (the early return)
Intersection(b1, b2) ==
    LET x_left == Max(b1[1], b2[1])
        y_top == Max(b1[2], b2[2])
        x_right == Min(b1[1] + b1[3], b2[1] + b2[3])
        y_bottom == Min(b1[2] + b1[4], b2[2] + b2[4])
    IN  IF x_right < x_left \/ y_bottom < y_top THEN -1
        ELSE (x_right - x_left) * (y_bottom - y_top)

\* calculate_overlap(b1, b2) > pct / 100
OverlapExceeds(b1, b2, pct) ==
    LET inter == Intersection(b1, b2)
        union == b1[3] * b1[4] + b2[3] * b2[4] - inter
    IN  /\ inter >= 0
        /\ union > 0
        /\ inter * 100 > pct * union

\* is_bbox_inside(b1, b2) with the default threshold 0.8
IsBboxInside(b1, b2) ==
    LET inter == Intersection(b1, b2)
    IN  inter >= 0 /\ inter * 5 > b1[3] * b1[4] * 4

(***************************************************************************)
(* Quality: mask['area'] * mask['stability_score'], compared exactly.      *)
(***************************************************************************)
\* area * n / d < area' * n' / d'
ScoreLess(a1, r1, a2, r2) ==
    BigLess(BigMulSmall(BigMulSmall(BigFromInt(a1), r1[1]), r2[2]),
            BigMulSmall(BigMulSmall(BigFromInt(a2), r2[1]), r1[2]))
QualityLess(m1, m2) ==
    ScoreLess(m1.area, m1.stability_score, m2.area, m2.stability_score)

(***************************************************************************)
(* sorted(..., reverse=True): a stable sort into non-increasing key order. *)
(* lt[a][b] says that the key of position a is below the key of position b.*)
(* StableDesc(n, lt) is the order of the positions 1..n after the sort.    *)
(***************************************************************************)
RECURSIVE StableDesc(_, _)
StableDesc(n, lt) ==
    IF n = 0 THEN <<>>
    ELSE LET r == StableDesc(n - 1, lt)
             before == SelectSeq(r, LAMBDA e : ~lt[e][n])
             after == SelectSeq(r, LAMBDA e : lt[e][n])
         IN  before \o <<n>> \o after

\* the sort without reverse=True: ascending quality
SortByQuality_Ascending(h, masks) ==
    LET n == Len(masks)
        lt == [a \in 1..n |-> [b \in 1..n |-> QualityLess(h[masks[b]], h[masks[a]])]]
        order == StableDesc(n, lt)
    IN  [k \in 1..n |-> masks[order[k]]]

\* sorted(masks, key=lambda x: x['area'] * x['stability_score'], reverse=True)
SortByQuality(h, masks) ==
    LET n == Len(masks)
        lt == [a \in 1..n |-> [b \in 1..n |-> QualityLess(h[masks[a]], h[masks[b]])]]
        order == StableDesc(n, lt)
    IN  [k \in 1..n |-> masks[order[k]]]

(***************************************************************************)
(* Deduplicator: remove_duplicate_masks.                                   *)
(***************************************************************************)
RemoveAt(s, k) == SubSeq(s, 1, k - 1) \o SubSeq(s, k + 1, Len(s))

\* the body of the outer loop for one current_mask: the inner loop stops at
\* the first kept mask that the current one overlaps or lies in (the current
\* mask is dropped) or that lies in the current one (that kept mask is
\* removed and the current one appended, without looking at the rest)
DedupStep(h, kept, cur, pct) ==
    LET cb == h[cur].bbox
        Drops(k) == \/ OverlapExceeds(cb, h[kept[k]].bbox, pct)
                    \/ IsBboxInside(cb, h[kept[k]].bbox)
        Replaces(k) == IsBboxInside(h[kept[k]].bbox, cb)
        hits == {k \in 1..Len(kept) : Drops(k) \/ Replaces(k)}
    IN  IF hits = {} THEN Append(kept, cur)
        ELSE LET k == CHOOSE j \in hits : \A j2 \in hits : j <= j2
             IN  IF Drops(k) THEN kept
                 ELSE Append(RemoveAt(kept, k), cur)

\* filtered_masks after the first n masks of the sorted list
RECURSIVE DedupUpTo(_, _, _, _)
DedupUpTo(h, sorted, n, pct) ==
    IF n = 0 THEN <<>>
    ELSE DedupStep(h, DedupUpTo(h, sorted, n - 1, pct), sorted[n], pct)

RemoveDuplicateMasks(h, masks, pct) ==
    IF masks = <<>> THEN <<>>
    ELSE DedupUpTo(h, SortByQuality(h, masks), Len(masks), pct)

(***************************************************************************)
(* EngineeringFilter: filter_masks_by_engineering_criteria.                *)
(***************************************************************************)
\* y > int(h * 0.8)
InBottomProtect(b) == b[2] > IntPct(imageHeight, 80)
\* y > h * 0.7 or x > w * 0.7
InFilterInfoBand(b) == b[2] * 10 > imageHeight * 7 \/ b[1] * 10 > imageWidth * 7

\* the policy table: <<min area, max area (per mille of the image), max
\* aspect ratio, min compactness (per cent)>>
ZoneBounds(b) ==
    IF InBottomProtect(b) THEN <<8, 500, 8, 10>>
    ELSE IF InFilterInfoBand(b) THEN <<2, 300, 25, 2>>
    ELSE <<3, 700, 15, 5>>

AreaRatioOk(m) ==
    LET z == ZoneBounds(m.bbox)
        total == imageHeight * imageWidth
    IN  m.area * 1000 >= z[1] * total /\ m.area * 1000 <= z[2] * total

\* the aspect test on width / height in place of max / min
AspectOk_WidthOverHeight(m) ==
    ~(m.bbox[3] > ZoneBounds(m.bbox)[3] * Max(m.bbox[4], 1))

AspectOk(m) ==
    LET w == m.bbox[3]
        h == m.bbox[4]
    IN  ~(Max(w, h) > ZoneBounds(m.bbox)[3] * Max(Min(w, h), 1))

\* 4 * pi * area / perimeter^2 >= min compactness, with pi as 355/113; the
\* check is skipped when the perimeter is 0
CompactnessOk(m) ==
    LET p == 2 * (m.bbox[3] + m.bbox[4])
    IN  p > 0 =>
          ~BigLess(BigMulSmall(BigFromInt(m.area), 400 * 355),
                   BigMulSmall(BigFromInt(p * p), ZoneBounds(m.bbox)[4] * 113))

\* the margin check: (x < margin and not is_info_region) or y < margin, and
\* then area < total_area * 0.05
\* the margin test skipped for info regions at the top margin too
EdgeOk_InfoExemptAtTop(m) ==
    LET b == m.bbox
    IN  ~(/\ (b[1] < Margin \/ b[2] < Margin) /\ ~InFilterInfoBand(b)
          /\ m.area * 20 < imageHeight * imageWidth)

EdgeOk(m) ==
    LET b == m.bbox
    IN  ~(/\ (b[1] < Margin /\ ~InFilterInfoBand(b)) \/ b[2] < Margin
          /\ m.area * 20 < imageHeight * imageWidth)

PassesFilter(m) == AreaRatioOk(m) /\ AspectOk(m) /\ CompactnessOk(m) /\ EdgeOk(m)

\* the tags a surviving mask receives, in place
FilterTag(m) ==
    IF InBottomProtect(m.bbox)
    THEN [m EXCEPT !.is_bottom_protected = TRUE, !.priority_boost = 15]
    ELSE IF InFilterInfoBand(m.bbox)
    THEN [m EXCEPT !.is_protected_text = TRUE, !.priority_boost = 13]
    ELSE m

\* the list returned, and the heap after the in-place tagging
FilterMasks(h, masks) ==
    LET out == SelectSeq(masks, LAMBDA id : PassesFilter(h[id]))
    IN  [heap |-> [id \in DOMAIN h |->
                      IF id \in SeqToSet(out) THEN FilterTag(h[id]) ELSE h[id]],
         list |-> out]

(***************************************************************************)
(* ProximityMerger: merge_nearby_masks and merge_mask_cluster.             *)
(***************************************************************************)
\* twice the center of a box (center_x = x + w / 2)
Center2(b) == <<2 * b[1] + b[3], 2 * b[2] + b[4]>>

\* the centers lie within eps = distance_threshold of each other
Near(b1, b2) ==
    LET c1 == Center2(b1)
        c2 == Center2(b2)
        dx == c1[1] - c2[1]
        dy == c1[2] - c2[2]
    IN  dx * dx + dy * dy <= 4 * DistanceThreshold * DistanceThreshold

\* DBSCAN(eps, min_samples=1): every point is a core point, so a cluster is
\* a connected component of Near.  Grow(h, masks, S) is the component that
\* holds the positions S.
RECURSIVE Grow(_, _, _)
Grow(h, masks, S) ==
    LET T == S \cup {j \in 1..Len(masks) :
                       \E k \in S : Near(h[masks[k]].bbox, h[masks[j]].bbox)}
    IN  IF T = S THEN S ELSE Grow(h, masks, T)

\* the clusters as sets of positions, in label order: labels are handed out
\* in the order of the lowest position of each cluster
RECURSIVE ClustersFrom(_, _, _, _)
ClustersFrom(h, masks, k, done) ==
    IF k > Len(masks) THEN <<>>
    ELSE IF k \in done THEN ClustersFrom(h, masks, k + 1, done)
    ELSE LET c == Grow(h, masks, {k})
         IN  <<c>> \o ClustersFrom(h, masks, k + 1, done \cup c)

Clusters(h, masks) == ClustersFrom(h, masks, 1, {})

\* the members of a cluster in list order
RECURSIVE SetToSortedSeq(_)
SetToSortedSeq(S) ==
    IF S = {} THEN <<>>
    ELSE LET a == CHOOSE x \in S : \A y \in S : x <= y
         IN  <<a>> \o SetToSortedSeq(S \ {a})

MinOver(f, S) == CHOOSE v \in {f[x] : x \in S} : \A x \in S : v <= f[x]
MaxOver(f, S) == CHOOSE v \in {f[x] : x \in S} : \A x \in S : v >= f[x]

\* merge_mask_cluster with the area of the enveloping bbox in place of the
\* sum of the areas
MergeMaskCluster_HullArea(h, ids) ==
    LET K == 1..Len(ids)
        left == [k \in K |-> h[ids[k]].bbox[1]]
        top == [k \in K |-> h[ids[k]].bbox[2]]
        right == [k \in K |-> h[ids[k]].bbox[1] + h[ids[k]].bbox[3]]
        bottom == [k \in K |-> h[ids[k]].bbox[2] + h[ids[k]].bbox[4]]
        min_x == MinOver(left, K)
        min_y == MinOver(top, K)
        max_x == MaxOver(right, K)
        max_y == MaxOver(bottom, K)
    IN  NewMask(<<min_x, min_y, max_x - min_x, max_y - min_y>>,
                (max_x - min_x) * (max_y - min_y),
                RatMean([k \in K |-> h[ids[k]].stability_score]),
                RatMean([k \in K |-> h[ids[k]].predicted_iou]),
                <<0, 0>>)

\* merge_mask_cluster: a new dict with the four keys bbox, area,
\* stability_score, predicted_iou
MergeMaskCluster(h, ids) ==
    LET K == 1..Len(ids)
        left == [k \in K |-> h[ids[k]].bbox[1]]
        top == [k \in K |-> h[ids[k]].bbox[2]]
        right == [k \in K |-> h[ids[k]].bbox[1] + h[ids[k]].bbox[3]]
        bottom == [k \in K |-> h[ids[k]].bbox[2] + h[ids[k]].bbox[4]]
        min_x == MinOver(left, K)
        min_y == MinOver(top, K)
        max_x == MaxOver(right, K)
        max_y == MaxOver(bottom, K)
    IN  NewMask(<<min_x, min_y, max_x - min_x, max_y - min_y>>,
                SumSeq([k \in K |-> h[ids[k]].area]),
                RatMean([k \in K |-> h[ids[k]].stability_score]),
                RatMean([k \in K |-> h[ids[k]].predicted_iou]),
                <<0, 0>>)

\* the merged list built cluster by cluster, and the heap with the new dicts
RECURSIVE MergeClusters(_, _, _, _)
MergeClusters(h, masks, cs, out) ==
    IF cs = <<>> THEN [heap |-> h, list |-> out]
    ELSE LET ids == [k \in 1..Cardinality(Head(cs)) |->
                        masks[SetToSortedSeq(Head(cs))[k]]]
         IN  IF Len(ids) = 1
             THEN MergeClusters(h, masks, Tail(cs), Append(out, ids[1]))
             ELSE MergeClusters(Append(h, MergeMaskCluster(h, ids)), masks,
                                Tail(cs), Append(out, Len(h) + 1))

MergeNearbyMasks(h, masks) ==
    IF Len(masks) < 2 THEN [heap |-> h, list |-> masks]
    ELSE MergeClusters(h, masks, Clusters(h, masks), <<>>)

(***************************************************************************)
(* InfoRegionDetector: detect_info_regions, merge_bottom_info_regions and  *)
(* create_bottom_info_region.                                              *)
(***************************************************************************)
\* center_y > int(height * 0.75)
IsBottomInfo(b) == 2 * b[2] + b[4] > 2 * IntPct(imageHeight, 75)
\* center_x > int(width * 0.75)
IsRightInfo(b) == 2 * b[1] + b[3] > 2 * IntPct(imageWidth, 75)
\* the size test without the lower limit
IsReasonableSize_NoLowerLimit(m) ==
    m.area * 10 < 3 * imageHeight * imageWidth

\* 0.002 < area / total_area < 0.3
IsReasonableSize(m) ==
    LET total == imageHeight * imageWidth
    IN  m.area > total \div 500 /\ m.area * 10 < 3 * total

IsBottomMask(m) == IsBottomInfo(m.bbox) /\ IsReasonableSize(m)
IsRightMask(m) == ~IsBottomMask(m) /\ IsRightInfo(m.bbox) /\ IsReasonableSize(m)

\* merge_bottom_info_regions, with the two keys detect_info_regions adds
MergeBottomInfoRegions(h, ids) ==
    LET K == 1..Len(ids)
        left == [k \in K |-> h[ids[k]].bbox[1]]
        top == [k \in K |-> h[ids[k]].bbox[2]]
        right == [k \in K |-> h[ids[k]].bbox[1] + h[ids[k]].bbox[3]]
        bottom == [k \in K |-> h[ids[k]].bbox[2] + h[ids[k]].bbox[4]]
        min_x == Max(0, MinOver(left, K) - 20)
        max_x == Min(imageWidth, MaxOver(right, K) + 20)
        min_y == Max(0, Min(MinOver(top, K), MinOver(bottom, K)) - 10)
        max_y == imageHeight
    IN  [NewMask(<<min_x, min_y, max_x - min_x, max_y - min_y>>,
                 SumSeq([k \in K |-> h[ids[k]].area]),
                 RatMean([k \in K |-> h[ids[k]].stability_score]),
                 <<9, 10>>,
                 <<0, 0>>)
         EXCEPT !.is_merged = TRUE, !.original_count = Len(ids),
                !.is_info_region = TRUE,
                !.info_type = {"bottom_info", "merged_region"}]

\* info_masks, and the heap after the envelope was created and the right
\* masks were flagged in place
DetectInfoRegions(h, masks) ==
    LET bottom_masks == SelectSeq(masks, LAMBDA id : IsBottomMask(h[id]))
        right_masks == SelectSeq(masks, LAMBDA id : IsRightMask(h[id]))
        other_masks == SelectSeq(masks, LAMBDA id :
                           ~IsBottomMask(h[id]) /\ ~IsRightMask(h[id]))
        h1 == IF bottom_masks = <<>> THEN h
              ELSE Append(h, MergeBottomInfoRegions(h, bottom_masks))
        merged == IF bottom_masks = <<>> THEN <<>> ELSE <<Len(h) + 1>>
        h2 == [id \in DOMAIN h1 |->
                 IF id \in SeqToSet(right_masks)
                 THEN [h1[id] EXCEPT !.is_info_region = TRUE,
                                     !.info_type = {"right_info"}]
                 ELSE h1[id]]
    IN  [heap |-> h2,
         list |-> merged \o right_masks
                  \o SelectSeq(other_masks, LAMBDA id : ~h2[id].is_info_region)]

CreateBottomInfoRegion ==
    LET bottom_start_y == IntPct(imageHeight, 80)
    IN  [NewMask(<<0, bottom_start_y, imageWidth, imageHeight - bottom_start_y>>,
                 imageWidth * (imageHeight - bottom_start_y),
                 <<19, 20>>, <<19, 20>>, <<0, 0>>)
         EXCEPT !.is_info_region = TRUE,
                !.info_type = {"bottom_info", "protected_region"},
                !.is_protected = TRUE]

(***************************************************************************)
(* RegionExpander: expand_info_regions.                                    *)
(***************************************************************************)
\* the expansion without the clamping to the image
ExpandedBbox_Unclamped(m) ==
    LET x == m.bbox[1]
        y == m.bbox[2]
        w == m.bbox[3]
        h == m.bbox[4]
    IN  IF "merged_region" \in m.info_type
        THEN LET expand_x == Max(10, IntPct(w, 5))
                 expand_y == Max(5, IntPct(h, 2))
             IN  <<x - expand_x, y - expand_y, w + 2 * expand_x, h + expand_y>>
        ELSE LET bottom == "bottom_info" \in m.info_type
                 expand_x == IF bottom THEN IntPct(w, 25) ELSE IntPct(w, 15)
                 expand_y == IF bottom THEN IntPct(h, 20) ELSE IntPct(h, 15)
             IN  <<x - expand_x, y - expand_y, w + 2 * expand_x, h + 2 * expand_y>>

\* the bbox written into the copy of an info mask
ExpandedBbox(m) ==
    LET x == m.bbox[1]
        y == m.bbox[2]
        w == m.bbox[3]
        h == m.bbox[4]
    IN  IF "merged_region" \in m.info_type
        THEN LET expand_x == Max(10, IntPct(w, 5))
                 expand_y == Max(5, IntPct(h, 2))
                 new_x == Max(0, x - expand_x)
                 new_y == Max(0, y - expand_y)
             IN  <<new_x, new_y,
                   Min(imageWidth - new_x, w + 2 * expand_x),
                   Min(imageHeight - new_y, h + expand_y)>>
        ELSE LET bottom == "bottom_info" \in m.info_type
                 expand_x == IF bottom THEN IntPct(w, 25) ELSE IntPct(w, 15)
                 expand_y == IF bottom THEN IntPct(h, 20) ELSE IntPct(h, 15)
                 new_x == Max(0, x - expand_x)
                 new_y == Max(0, y - expand_y)
             IN  <<new_x, new_y,
                   Min(imageWidth - new_x, w + 2 * expand_x),
                   Min(imageHeight - new_y, h + 2 * expand_y)>>

\* mask.copy() with the new bbox and area = new_w * new_h
ExpandedCopy(m) ==
    LET b == ExpandedBbox(m)
    IN  [m EXCEPT !.bbox = b, !.area = b[3] * b[4]]

\* expanded_masks, and the heap with the copies
RECURSIVE ExpandFrom(_, _, _, _)
ExpandFrom(h, masks, k, out) ==
    IF k > Len(masks) THEN [heap |-> h, list |-> out]
    ELSE IF ~h[masks[k]].is_info_region
    THEN ExpandFrom(h, masks, k + 1, Append(out, masks[k]))
    ELSE ExpandFrom(Append(h, ExpandedCopy(h[masks[k]])), masks, k + 1,
                    Append(out, Len(h) + 1))

ExpandInfoRegions(h, masks) == ExpandFrom(h, masks, 1, <<>>)

(***************************************************************************)
(* TextRegionRefiner: post_process_text_regions.                           *)
(***************************************************************************)
\* y > h * 0.7 or x > w * 0.7
InTextBand(b) == b[2] * 10 > imageHeight * 7 \/ b[1] * 10 > imageWidth * 7

\* the bbox written back into a mask of the band
TextBbox(b) ==
    LET x == b[1]
        y == b[2]
        w_bbox == b[3]
        h_bbox == b[4]
        horizontal == Max(w_bbox, h_bbox) > 3 * Min(w_bbox, h_bbox) /\ w_bbox > h_bbox
        block == ~(Max(w_bbox, h_bbox) > 3 * Min(w_bbox, h_bbox))
        expand_h == IF horizontal THEN IntPct(w_bbox, 20)
                    ELSE IF block THEN IntPct(w_bbox, 25)
                    ELSE IntPct(w_bbox, 30)
        expand_v == IF horizontal THEN IntPct(h_bbox, 30)
                    ELSE IF block THEN IntPct(h_bbox, 25)
                    ELSE IntPct(h_bbox, 20)
        new_x == Max(0, x - expand_h)
        new_y == Max(0, y - expand_v)
    IN  <<new_x, new_y,
          Min(imageWidth, x + w_bbox + expand_h) - new_x,
          Min(imageHeight, y + h_bbox + expand_v) - new_y>>

\* the update of one mask, in place
TextOptimize(m) ==
    IF InTextBand(m.bbox)
    THEN LET b == TextBbox(m.bbox)
         IN  [m EXCEPT !.bbox = b, !.area = b[3] * b[4], !.text_optimized = TRUE]
    ELSE m

\* the heap after the loop reached position k of the list: a dict that the
\* list holds twice is updated twice
RECURSIVE PostProcessHeap(_, _, _)
PostProcessHeap(h, masks, k) ==
    IF k = 0 THEN h
    ELSE LET g == PostProcessHeap(h, masks, k - 1)
         IN  [g EXCEPT ![masks[k]] = TextOptimize(g[masks[k]])]

PostProcessTextRegions(h, masks) ==
    [heap |-> PostProcessHeap(h, masks, Len(masks)), list |-> masks]

(***************************************************************************)
(* ImportanceRanker: sort_masks_by_importance.                             *)
(***************************************************************************)
\* the factor applied to base_score, times 1000
\* "if" in place of "elif": the multipliers of the paths compound
ImportanceWeight_Compounding(m) ==
    LET p == IF m.is_protected THEN 30 ELSE 10
        g == IF m.is_merged THEN 25 ELSE 10
        i == IF m.is_info_region THEN 18 ELSE 10
    IN  p * g * i

ImportanceWeight(m) ==
    IF m.is_protected THEN 3000
    ELSE IF m.is_merged THEN 2500
    ELSE IF m.is_info_region
    THEN LET a == IF "bottom_info" \in m.info_type THEN 1800 * 14 ELSE 18000
             b == IF m.is_bottom_protected THEN a * 16 ELSE a * 10
         IN  b \div 100
    ELSE 1000

\* calculate_importance_score(m1) < calculate_importance_score(m2)
ImportanceLess(m1, m2) ==
    BigLess(BigMulSmall(BigMulSmall(BigMulSmall(BigFromInt(m1.area),
                m1.stability_score[1]), m2.stability_score[2]), ImportanceWeight(m1)),
            BigMulSmall(BigMulSmall(BigMulSmall(BigFromInt(m2.area),
                m2.stability_score[1]), m1.stability_score[2]), ImportanceWeight(m2)))

SortMasksByImportance(h, masks) ==
    LET n == Len(masks)
        lt == [a \in 1..n |-> [b \in 1..n |-> ImportanceLess(h[masks[a]], h[masks[b]])]]
        order == StableDesc(n, lt)
    IN  [k \in 1..n |-> masks[order[k]]]

\* the list cut to 20 before it is sorted
RankAndTruncate_TruncateFirst(h, masks) ==
    SortMasksByImportance(h, SubSeq(masks, 1, Min(Len(masks), MaxOutputRegions)))

\* sort_masks_by_importance(final_masks_deduped)[:20]
RankAndTruncate(h, masks) ==
    LET r == SortMasksByImportance(h, masks)
    IN  SubSeq(r, 1, Min(Len(r), MaxOutputRegions))

(***************************************************************************)
(* The output loop of split_image.                                         *)
(***************************************************************************)
\* expand_bbox_to_include_text(image, bbox) with expansion_ratio 0.15
ExpandBboxToIncludeText(b) ==
    LET expand_x == IntPct(b[3], 15)
        expand_y == IntPct(b[4], 15)
        new_x == Max(0, b[1] - expand_x)
        new_y == Max(0, b[2] - expand_y)
    IN  <<new_x, new_y,
          Min(imageWidth - new_x, b[3] + 2 * expand_x),
          Min(imageHeight - new_y, b[4] + 2 * expand_y)>>

\* the expanded bbox after the clamping of lines 802-805
OutputBbox(b) ==
    LET e == ExpandBboxToIncludeText(b)
        x == Max(0, Min(e[1], imageWidth - 1))
        y == Max(0, Min(e[2], imageHeight - 1))
    IN  <<x, y, Min(e[3], imageWidth - x), Min(e[4], imageHeight - y)>>

\* the output loop without the test of w <= 0 or h <= 0
RECURSIVE ViewInfoFrom_KeepDegenerate(_, _, _)
ViewInfoFrom_KeepDegenerate(h, masks, k) ==
    IF k > Len(masks) THEN <<>>
    ELSE <<[view_id |-> k, mask |-> masks[k],
            bbox |-> OutputBbox(h[masks[k]].bbox),
            area |-> h[masks[k]].area,
            stability_score |-> h[masks[k]].stability_score,
            predicted_iou |-> h[masks[k]].predicted_iou]>>
         \o ViewInfoFrom_KeepDegenerate(h, masks, k + 1)

\* view_info: one record per mask of final_masks whose clamped bbox has
\* w > 0 and h > 0; view_id is the position in final_masks
RECURSIVE ViewInfoFrom(_, _, _)
ViewInfoFrom(h, masks, k) ==
    IF k > Len(masks) THEN <<>>
    ELSE LET b == OutputBbox(h[masks[k]].bbox)
         IN  IF b[3] <= 0 \/ b[4] <= 0 THEN ViewInfoFrom(h, masks, k + 1)
             ELSE <<[view_id |-> k, mask |-> masks[k], bbox |-> b,
                     area |-> h[masks[k]].area,
                     stability_score |-> h[masks[k]].stability_score,
                     predicted_iou |-> h[masks[k]].predicted_iou]>>
                  \o ViewInfoFrom(h, masks, k + 1)

(***************************************************************************)
(* State.                                                                  *)
(*   pc        where the main thread stands in split_image                 *)
(*   gi        the generator of the current loop iteration (i + 1)         *)
(*   worker    per generator pass, the state of its thread                 *)
(*   q         per generator pass, the content of its queue.Queue()        *)
(*   expired   the passes whose join returned because the 300 s elapsed    *)
(*   outcome   per generator pass, the branch the main thread took         *)
(*   heap      the mask dicts; the lists below hold positions in it        *)
(*   result    the list split_image returns (view ids of the saved files)  *)
(* The other variables are the local variables of split_image of the same  *)
(* name; overlap_threshold is the argument of the latest call of           *)
(* remove_duplicate_masks, in per cent.                                    *)
(***************************************************************************)
VARIABLES pc, gi, worker, q, expired, outcome, heap, all_masks, filtered_masks,
          unique_masks, merged_masks, info_masks, expanded_info_masks,
          all_final_masks, text_optimized_masks, final_masks_deduped,
          final_masks, view_info, result, overlap_threshold

genVars == <<gi, worker, q, expired, outcome>>
stageVars == <<filtered_masks, unique_masks, merged_masks, info_masks,
               expanded_info_masks, all_final_masks, text_optimized_masks,
               final_masks_deduped, final_masks, view_info, overlap_threshold>>
vars == <<pc, gi, worker, q, expired, outcome, heap, all_masks, filtered_masks,
          unique_masks, merged_masks, info_masks, expanded_info_masks,
          all_final_masks, text_optimized_masks, final_masks_deduped,
          final_masks, view_info, result, overlap_threshold>>

Generators == 1..NumGenerators

Init ==
    /\ pc = "loop"
    /\ gi = 1
    /\ worker = [g \in Generators |-> "idle"]
    /\ q = [g \in Generators |-> <<>>]
    /\ expired = {}
    /\ outcome = [g \in Generators |-> "pending"]
    /\ heap = <<>>
    /\ all_masks = <<>>
    /\ filtered_masks = <<>>
    /\ unique_masks = <<>>
    /\ merged_masks = <<>>
    /\ info_masks = <<>>
    /\ expanded_info_masks = <<>>
    /\ all_final_masks = <<>>
    /\ text_optimized_masks = <<>>
    /\ final_masks_deduped = <<>>
    /\ final_masks = <<>>
    /\ view_info = <<>>
    /\ result = <<>>
    /\ overlap_threshold = 30

(***************************************************************************)
(* The generator loop of split_image (lines 667-717).                      *)
(***************************************************************************)
\* one queue created before the loop and shared by all passes
PassQueue_Shared(g) == 1

\* q = queue.Queue() inside the loop body: pass g has a queue of its own,
\* which its worker thread receives as an argument
PassQueue(g) == g

\* thread = threading.Thread(...); thread.start(); the main thread then
\* waits in thread.join(timeout=300)
StartPass ==
    /\ pc = "loop"
    /\ gi <= NumGenerators
    /\ worker' = [worker EXCEPT ![gi] = "running"]
    /\ pc' = "join"
    /\ UNCHANGED <<gi, q, expired, outcome, heap, all_masks, stageVars, result>>

\* an exception in the body of the try before the thread runs: the outer
\* except prints and continues with the next generator
PassRaises ==
    /\ pc = "loop"
    /\ gi <= NumGenerators
    /\ outcome' = [outcome EXCEPT ![gi] = "exception"]
    /\ gi' = gi + 1
    /\ UNCHANGED <<pc, worker, q, expired, heap, all_masks, stageVars, result>>

\* generate_masks(q) on the worker thread: generator.generate returned
WorkerSucceeds(g) ==
    /\ worker[g] = "running"
    /\ \E s \in IncSeqs(Len(Proposals[g]), MaxPerPass) :
          q' = [q EXCEPT ![PassQueue(g)] =
                   Append(q[PassQueue(g)],
                          [type |-> "success", masks |-> GenMasks(g, s)])]
    /\ worker' = [worker EXCEPT ![g] = "done"]
    /\ UNCHANGED <<pc, gi, expired, outcome, heap, all_masks, stageVars, result>>

\* generate_masks(q) on the worker thread: generator.generate raised
WorkerFails(g) ==
    /\ worker[g] = "running"
    /\ q' = [q EXCEPT ![PassQueue(g)] =
                Append(q[PassQueue(g)], [type |-> "error", masks |-> <<>>])]
    /\ worker' = [worker EXCEPT ![g] = "done"]
    /\ UNCHANGED <<pc, gi, expired, outcome, heap, all_masks, stageVars, result>>

\* thread.join(timeout=300) returns because the thread ended
JoinReturns ==
    /\ pc = "join"
    /\ worker[gi] = "done"
    /\ pc' = "alive"
    /\ UNCHANGED <<genVars, heap, all_masks, stageVars, result>>

\* thread.join(timeout=300) returns because the 300 s elapsed
JoinTimesOut ==
    /\ pc = "join"
    /\ worker[gi] = "running"
    /\ expired' = expired \cup {gi}
    /\ pc' = "alive"
    /\ UNCHANGED <<gi, worker, q, outcome, heap, all_masks, stageVars, result>>

\* if thread.is_alive(): continue
SkipTimedOut ==
    /\ pc = "alive"
    /\ worker[gi] = "running"
    /\ outcome' = [outcome EXCEPT ![gi] = "timeout"]
    /\ gi' = gi + 1
    /\ pc' = "loop"
    /\ UNCHANGED <<worker, q, expired, heap, all_masks, stageVars, result>>

\* q.get_nowait() and the branches on result_type; queue.Empty when the
\* queue holds nothing
TakeResult ==
    /\ pc = "alive"
    /\ worker[gi] = "done"
    /\ LET mine == PassQueue(gi)
       IN  IF q[mine] = <<>>
           THEN /\ outcome' = [outcome EXCEPT ![gi] = "empty"]
                /\ UNCHANGED <<q, heap, all_masks>>
           ELSE /\ q' = [q EXCEPT ![mine] = Tail(q[mine])]
                /\ IF Head(q[mine]).type = "success"
                   THEN LET new == Head(q[mine]).masks
                        IN  /\ heap' = heap \o new
                            /\ all_masks' = all_masks \o
                                   [k \in 1..Len(new) |-> Len(heap) + k]
                            /\ outcome' = [outcome EXCEPT ![gi] = "success"]
                   ELSE /\ outcome' = [outcome EXCEPT ![gi] = "error"]
                        /\ UNCHANGED <<heap, all_masks>>
    /\ gi' = gi + 1
    /\ pc' = "loop"
    /\ UNCHANGED <<worker, expired, stageVars, result>>

\* the end of the loop without the test of all_masks
EndLoop_NoEmptyCheck ==
    /\ pc = "loop"
    /\ gi > NumGenerators
    /\ pc' = "filter"
    /\ UNCHANGED <<genVars, heap, all_masks, stageVars, result>>

\* after the loop: if not all_masks: return []  (scale_factor is 1.0 for an
\* image of this size, so the bboxes are not rescaled)
EndLoop ==
    /\ pc = "loop"
    /\ gi > NumGenerators
    /\ IF all_masks = <<>>
       THEN pc' = "done" /\ result' = <<>>
       ELSE pc' = "filter" /\ UNCHANGED result
    /\ UNCHANGED <<genVars, heap, all_masks, stageVars>>

(***************************************************************************)
(* The post-processing stages of split_image (lines 731-774).              *)
(***************************************************************************)
\* filtered_masks = self.filter_masks_by_engineering_criteria(all_masks, ...)
Filter ==
    /\ pc = "filter"
    /\ LET r == FilterMasks(heap, all_masks)
       IN  heap' = r.heap /\ filtered_masks' = r.list
    /\ pc' = "dedup1"
    /\ UNCHANGED <<genVars, all_masks, unique_masks, merged_masks, info_masks,
                   expanded_info_masks, all_final_masks, text_optimized_masks,
                   final_masks_deduped, final_masks, view_info, result,
                   overlap_threshold>>

\* unique_masks = self.remove_duplicate_masks(filtered_masks)
Dedup1 ==
    /\ pc = "dedup1"
    /\ overlap_threshold' = 30
    /\ unique_masks' = RemoveDuplicateMasks(heap, filtered_masks, 30)
    /\ pc' = "merge"
    /\ UNCHANGED <<genVars, heap, all_masks, filtered_masks, merged_masks,
                   info_masks, expanded_info_masks, all_final_masks,
                   text_optimized_masks, final_masks_deduped, final_masks,
                   view_info, result>>

\* merged_masks = self.merge_nearby_masks(unique_masks)
Merge ==
    /\ pc = "merge"
    /\ LET r == MergeNearbyMasks(heap, unique_masks)
       IN  heap' = r.heap /\ merged_masks' = r.list
    /\ pc' = "detect"
    /\ UNCHANGED <<genVars, all_masks, filtered_masks, unique_masks, info_masks,
                   expanded_info_masks, all_final_masks, text_optimized_masks,
                   final_masks_deduped, final_masks, view_info, result,
                   overlap_threshold>>

\* bottom_protection = self.create_bottom_info_region(...);
\* info_masks = self.detect_info_regions(...); info_masks.append(bottom_protection)
Detect ==
    /\ pc = "detect"
    /\ LET h0 == Append(heap, CreateBottomInfoRegion)
           bottom_protection == Len(heap) + 1
           r == DetectInfoRegions(h0, merged_masks)
       IN  heap' = r.heap /\ info_masks' = Append(r.list, bottom_protection)
    /\ pc' = "expand"
    /\ UNCHANGED <<genVars, all_masks, filtered_masks, unique_masks, merged_masks,
                   expanded_info_masks, all_final_masks, text_optimized_masks,
                   final_masks_deduped, final_masks, view_info, result,
                   overlap_threshold>>

\* expanded_info_masks = self.expand_info_regions(...); non_info_masks =
\* [mask for mask in merged_masks if not mask.get('is_info_region', False)];
\* all_final_masks = non_info_masks + expanded_info_masks
Expand ==
    /\ pc = "expand"
    /\ LET r == ExpandInfoRegions(heap, info_masks)
           non_info_masks ==
               SelectSeq(merged_masks, LAMBDA id : ~r.heap[id].is_info_region)
       IN  /\ heap' = r.heap
           /\ expanded_info_masks' = r.list
           /\ all_final_masks' = non_info_masks \o r.list
    /\ pc' = "text"
    /\ UNCHANGED <<genVars, all_masks, filtered_masks, unique_masks, merged_masks,
                   info_masks, text_optimized_masks, final_masks_deduped,
                   final_masks, view_info, result, overlap_threshold>>

\* text_optimized_masks = self.post_process_text_regions(all_final_masks, ...)
TextPost ==
    /\ pc = "text"
    /\ LET r == PostProcessTextRegions(heap, all_final_masks)
       IN  heap' = r.heap /\ text_optimized_masks' = r.list
    /\ pc' = "dedup2"
    /\ UNCHANGED <<genVars, all_masks, filtered_masks, unique_masks, merged_masks,
                   info_masks, expanded_info_masks, all_final_masks,
                   final_masks_deduped, final_masks, view_info, result,
                   overlap_threshold>>

\* final_masks_deduped = self.remove_duplicate_masks(text_optimized_masks,
\* overlap_threshold=0.4); if not final_masks_deduped: return []
Dedup2 ==
    /\ pc = "dedup2"
    /\ overlap_threshold' = 40
    /\ LET r == RemoveDuplicateMasks(heap, text_optimized_masks, 40)
       IN  /\ final_masks_deduped' = r
           /\ IF r = <<>>
              THEN pc' = "done" /\ result' = <<>>
              ELSE pc' = "rank" /\ UNCHANGED result
    /\ UNCHANGED <<genVars, heap, all_masks, filtered_masks, unique_masks,
                   merged_masks, info_masks, expanded_info_masks,
                   all_final_masks, text_optimized_masks, final_masks, view_info>>

\* final_masks = self.sort_masks_by_importance(final_masks_deduped)[:20]
Rank ==
    /\ pc = "rank"
    /\ final_masks' = RankAndTruncate(heap, final_masks_deduped)
    /\ pc' = "save"
    /\ UNCHANGED <<genVars, heap, all_masks, filtered_masks, unique_masks,
                   merged_masks, info_masks, expanded_info_masks,
                   all_final_masks, text_optimized_masks, final_masks_deduped,
                   view_info, result, overlap_threshold>>

\* the loop over final_masks that crops and saves the views, and
\* return saved_files
Save ==
    /\ pc = "save"
    /\ LET v == ViewInfoFrom(heap, final_masks, 1)
       IN  /\ view_info' = v
           /\ result' = [k \in 1..Len(v) |-> v[k].view_id]
    /\ pc' = "done"
    /\ UNCHANGED <<genVars, heap, all_masks, filtered_masks, unique_masks,
                   merged_masks, info_masks, expanded_info_masks,
                   all_final_masks, text_optimized_masks, final_masks_deduped,
                   final_masks, overlap_threshold>>

\* the steps of the main thread in the generator loop
GeneratorLoop ==
    \/ StartPass
    \/ PassRaises
    \/ JoinReturns
    \/ JoinTimesOut
    \/ SkipTimedOut
    \/ TakeResult
    \/ EndLoop

\* the steps of the main thread after the loop
PostProcessing ==
    \/ Filter
    \/ Dedup1
    \/ Merge
    \/ Detect
    \/ Expand
    \/ TextPost
    \/ Dedup2
    \/ Rank
    \/ Save

Main == GeneratorLoop \/ PostProcessing

Workers == \E g \in Generators : WorkerSucceeds(g) \/ WorkerFails(g)

Next == Main \/ Workers

Spec == Init /\ [][Next]_vars

\* the main thread is scheduled while it is in the generator loop, and join
\* returns at the deadline at the latest; nothing is assumed of the workers
FairSpec == Spec /\ WF_vars(GeneratorLoop)

(***************************************************************************)
(* remove_duplicate_masks on its own: every list of at most MaxDedupLen    *)
(* distinct masks of DedupPool, under every threshold of DedupThresholds,  *)
(* is deduplicated (unique_masks) and the result deduplicated again        *)
(* (final_masks_deduped).                                                  *)
(***************************************************************************)
DedupPool ==
    << <<1, 1>>, <<2, 1>>, <<1, 4>>, <<2, 3>>, <<2, 4>>, <<2, 5>>, <<1, 3>>, <<1, 2>> >>
DedupThresholds == {10, 30, 40, 60}

DistinctSeqs(m, n) ==
    {s \in UNION {[1..k -> 1..m] : k \in 0..n} :
        \A a \in 1..Len(s) : \A b \in 1..Len(s) : a # b => s[a] # s[b]}

InitDedup ==
    /\ pc = "dedup_input"
    /\ heap = [k \in 1..Len(DedupPool) |->
                 GenMasks(DedupPool[k][1], <<DedupPool[k][2]>>)[1]]
    /\ all_masks \in DistinctSeqs(Len(DedupPool), MaxDedupLen)
    /\ overlap_threshold \in DedupThresholds
    /\ gi = 1
    /\ worker = [g \in Generators |-> "idle"]
    /\ q = [g \in Generators |-> <<>>]
    /\ expired = {}
    /\ outcome = [g \in Generators |-> "pending"]
    /\ filtered_masks = <<>>
    /\ unique_masks = <<>>
    /\ merged_masks = <<>>
    /\ info_masks = <<>>
    /\ expanded_info_masks = <<>>
    /\ all_final_masks = <<>>
    /\ text_optimized_masks = <<>>
    /\ final_masks_deduped = <<>>
    /\ final_masks = <<>>
    /\ view_info = <<>>
    /\ result = <<>>

DedupOnce ==
    /\ pc = "dedup_input"
    /\ unique_masks' = RemoveDuplicateMasks(heap, all_masks, overlap_threshold)
    /\ pc' = "dedup_once"
    /\ UNCHANGED <<genVars, heap, all_masks, filtered_masks, merged_masks,
                   info_masks, expanded_info_masks, all_final_masks,
                   text_optimized_masks, final_masks_deduped, final_masks,
                   view_info, result, overlap_threshold>>

DedupAgain ==
    /\ pc = "dedup_once"
    /\ final_masks_deduped' =
           RemoveDuplicateMasks(heap, unique_masks, overlap_threshold)
    /\ pc' = "dedup_twice"
    /\ UNCHANGED <<genVars, heap, all_masks, filtered_masks, unique_masks,
                   merged_masks, info_masks, expanded_info_masks,
                   all_final_masks, text_optimized_masks, final_masks,
                   view_info, result, overlap_threshold>>

NextDedup == DedupOnce \/ DedupAgain

SpecDedup == InitDedup /\ [][NextDedup]_vars

(***************************************************************************)
(* The ranker on its own: sort_masks_by_importance(...)[:20] applied to    *)
(* lists of up to MaxRankLen masks.  Mask k of a list has an area and a    *)
(* set of flags that depend on k and on two seeds, so that the lists come  *)
(* in many orders and mix every kind of region the ranker tells apart.     *)
(***************************************************************************)
RankKinds ==
    << NewMask(<<0, 0, 10, 10>>, 0, <<9, 10>>, <<9, 10>>, <<0, 0>>),
       [NewMask(<<0, 0, 10, 10>>, 0, <<4, 5>>, <<9, 10>>, <<0, 0>>)
           EXCEPT !.is_info_region = TRUE, !.info_type = {"right_info"}],
       [NewMask(<<0, 0, 10, 10>>, 0, <<19, 20>>, <<9, 10>>, <<0, 0>>)
           EXCEPT !.is_info_region = TRUE, !.is_protected = TRUE,
                  !.info_type = {"bottom_info", "protected_region"}],
       [NewMask(<<0, 0, 10, 10>>, 0, <<17, 20>>, <<9, 10>>, <<0, 0>>)
           EXCEPT !.is_info_region = TRUE, !.is_merged = TRUE,
                  !.info_type = {"bottom_info", "merged_region"}],
       [NewMask(<<0, 0, 10, 10>>, 0, <<1, 1>>, <<9, 10>>, <<0, 0>>)
           EXCEPT !.is_bottom_protected = TRUE, !.priority_boost = 15] >>

RankInput(n, a, b) ==
    [k \in 1..n |->
        [RankKinds[((k + b) % Len(RankKinds)) + 1]
            EXCEPT !.area = 1000 + 700 * ((k * a + b) % 7)]]

InitRank ==
    /\ pc = "rank_input"
    /\ \E n \in 0..MaxRankLen : \E a \in 1..6 : \E b \in 0..4 :
          /\ heap = RankInput(n, a, b)
          /\ final_masks_deduped = [k \in 1..n |-> k]
    /\ all_masks = <<>>
    /\ overlap_threshold = 30
    /\ gi = 1
    /\ worker = [g \in Generators |-> "idle"]
    /\ q = [g \in Generators |-> <<>>]
    /\ expired = {}
    /\ outcome = [g \in Generators |-> "pending"]
    /\ filtered_masks = <<>>
    /\ unique_masks = <<>>
    /\ merged_masks = <<>>
    /\ info_masks = <<>>
    /\ expanded_info_masks = <<>>
    /\ all_final_masks = <<>>
    /\ text_optimized_masks = <<>>
    /\ final_masks = <<>>
    /\ view_info = <<>>
    /\ result = <<>>

RankOnly ==
    /\ pc = "rank_input"
    /\ final_masks' = RankAndTruncate(heap, final_masks_deduped)
    /\ pc' = "rank_output"
    /\ UNCHANGED <<genVars, heap, all_masks, filtered_masks, unique_masks,
                   merged_masks, info_masks, expanded_info_masks,
                   all_final_masks, text_optimized_masks, final_masks_deduped,
                   view_info, result, overlap_threshold>>

NextRank == RankOnly

SpecRank == InitRank /\ [][NextRank]_vars

(***************************************************************************)
(* The output loop on its own: Save applied to lists of up to MaxOutLen    *)
(* masks whose bboxes are drawn from OutputPool.  The pool holds boxes at  *)
(* the borders of the image and boxes of width or height 0, which is what  *)
(* the bbox of a mask one pixel wide or high is in XYWH form.              *)
(***************************************************************************)
OutputPool ==
    << <<100, 100, 400, 400>>, <<0, 800, 1000, 200>>, <<990, 990, 10, 10>>,
       <<500, 500, 0, 80>>, <<300, 999, 50, 0>>, <<0, 0, 1000, 1000>>,
       <<999, 0, 1, 1>>, <<200, 200, 3, 3>> >>

InitOutput ==
    /\ pc = "save"
    /\ \E s \in UNION {[1..n -> 1..Len(OutputPool)] : n \in 0..MaxOutLen} :
          /\ heap = [k \in 1..Len(s) |->
                       NewMask(OutputPool[s[k]],
                               OutputPool[s[k]][3] * OutputPool[s[k]][4] + 1,
                               <<9, 10>>, <<9, 10>>, <<0, 0>>)]
          /\ final_masks = [k \in 1..Len(s) |-> k]
    /\ all_masks = <<>>
    /\ overlap_threshold = 40
    /\ gi = 1
    /\ worker = [g \in Generators |-> "idle"]
    /\ q = [g \in Generators |-> <<>>]
    /\ expired = {}
    /\ outcome = [g \in Generators |-> "pending"]
    /\ filtered_masks = <<>>
    /\ unique_masks = <<>>
    /\ merged_masks = <<>>
    /\ info_masks = <<>>
    /\ expanded_info_masks = <<>>
    /\ all_final_masks = <<>>
    /\ text_optimized_masks = <<>>
    /\ final_masks_deduped = <<>>
    /\ view_info = <<>>
    /\ result = <<>>

NextOutput == Save

SpecOutput == InitOutput /\ [][NextOutput]_vars

(***************************************************************************)
(* detect_info_regions on its own: Detect applied to lists of up to        *)
(* MaxDetectLen distinct masks of DetectPool.  The pool holds the three    *)
(* 20x20 boxes with centers (900,950), (905,955), (980,990), three 50x50   *)
(* boxes of the bottom band, a box of the right band and a main view.      *)
(***************************************************************************)
DetectPool ==
    << NewMask(<<890, 940, 20, 20>>, 400, <<9, 10>>, <<9, 10>>, <<0, 0>>),
       NewMask(<<895, 945, 20, 20>>, 400, <<4, 5>>, <<9, 10>>, <<0, 0>>),
       NewMask(<<970, 980, 20, 20>>, 400, <<19, 20>>, <<9, 10>>, <<0, 0>>),
       NewMask(<<875, 925, 50, 50>>, 2500, <<9, 10>>, <<9, 10>>, <<0, 0>>),
       NewMask(<<880, 930, 50, 50>>, 2500, <<4, 5>>, <<9, 10>>, <<0, 0>>),
       NewMask(<<950, 950, 50, 50>>, 2500, <<19, 20>>, <<9, 10>>, <<0, 0>>),
       NewMask(<<850, 300, 100, 100>>, 10000, <<9, 10>>, <<9, 10>>, <<0, 0>>),
       NewMask(<<100, 100, 400, 400>>, 160000, <<9, 10>>, <<9, 10>>, <<0, 0>>) >>

InitDetect ==
    /\ pc = "detect"
    /\ heap = DetectPool
    /\ merged_masks \in DistinctSeqs(Len(DetectPool), MaxDetectLen)
    /\ all_masks = <<>>
    /\ overlap_threshold = 30
    /\ gi = 1
    /\ worker = [g \in Generators |-> "idle"]
    /\ q = [g \in Generators |-> <<>>]
    /\ expired = {}
    /\ outcome = [g \in Generators |-> "pending"]
    /\ filtered_masks = <<>>
    /\ unique_masks = <<>>
    /\ info_masks = <<>>
    /\ expanded_info_masks = <<>>
    /\ all_final_masks = <<>>
    /\ text_optimized_masks = <<>>
    /\ final_masks_deduped = <<>>
    /\ final_masks = <<>>
    /\ view_info = <<>>
    /\ result = <<>>

NextDetect == Detect

SpecDetect == InitDetect /\ [][NextDetect]_vars

(***************************************************************************)
(* filter_masks_by_engineering_criteria on its own: Filter applied to      *)
(* lists of up to MaxFilterLen distinct masks of FilterPool.  The pool     *)
(* holds masks of every zone, inside and outside the bounds of the zone,   *)
(* masks at the left and top margin on both sides of the 5% limit, and a   *)
(* mask whose center lies in the right band while its corner does not.     *)
(***************************************************************************)
FilterPool ==
    << NewMask(<<500, 200, 10, 500>>, 5000, <<9, 10>>, <<9, 10>>, <<0, 0>>),
       NewMask(<<500, 100, 500, 800>>, 400000, <<9, 10>>, <<9, 10>>, <<0, 0>>),
       NewMask(<<100, 820, 200, 100>>, 20000, <<9, 10>>, <<9, 10>>, <<0, 0>>),
       NewMask(<<50, 850, 900, 100>>, 80000, <<9, 10>>, <<9, 10>>, <<0, 0>>),
       NewMask(<<820, 200, 150, 300>>, 45000, <<9, 10>>, <<9, 10>>, <<0, 0>>),
       NewMask(<<5, 500, 100, 100>>, 10000, <<9, 10>>, <<9, 10>>, <<0, 0>>),
       NewMask(<<5, 100, 400, 400>>, 160000, <<9, 10>>, <<9, 10>>, <<0, 0>>),
       NewMask(<<800, 5, 150, 150>>, 22500, <<9, 10>>, <<9, 10>>, <<0, 0>>),
       NewMask(<<750, 3, 200, 300>>, 60000, <<9, 10>>, <<9, 10>>, <<0, 0>>),
       NewMask(<<300, 5, 100, 100>>, 10000, <<9, 10>>, <<9, 10>>, <<0, 0>>),
       NewMask(<<100, 100, 400, 400>>, 160000, <<9, 10>>, <<9, 10>>, <<0, 0>>),
       NewMask(<<5, 200, 250, 200>>, 50000, <<9, 10>>, <<9, 10>>, <<0, 0>>),
       NewMask(<<720, 400, 40, 40>>, 1600, <<9, 10>>, <<9, 10>>, <<0, 0>>),
       NewMask(<<100, 750, 800, 40>>, 32000, <<9, 10>>, <<9, 10>>, <<0, 0>>),
       NewMask(<<5, 750, 200, 100>>, 20000, <<9, 10>>, <<9, 10>>, <<0, 0>>) >>

InitFilter ==
    /\ pc = "filter"
    /\ heap = FilterPool
    /\ all_masks \in DistinctSeqs(Len(FilterPool), MaxFilterLen)
    /\ overlap_threshold = 30
    /\ gi = NumGenerators + 1
    /\ worker = [g \in Generators |-> "done"]
    /\ q = [g \in Generators |-> <<>>]
    /\ expired = {}
    /\ outcome = [g \in Generators |-> "success"]
    /\ filtered_masks = <<>>
    /\ unique_masks = <<>>
    /\ merged_masks = <<>>
    /\ info_masks = <<>>
    /\ expanded_info_masks = <<>>
    /\ all_final_masks = <<>>
    /\ text_optimized_masks = <<>>
    /\ final_masks_deduped = <<>>
    /\ final_masks = <<>>
    /\ view_info = <<>>
    /\ result = <<>>

NextFilter == Filter

SpecFilter == InitFilter /\ [][NextFilter]_vars

(***************************************************************************)
(* The post-processing stages of split_image on their own, from the filter *)
(* to the saved views, on lists of up to MaxPipeLen distinct masks of      *)
(* PipePool.  The pool holds plain views, masks of the right band (one of   *)
(* them with its corner in the band and its center left of 0.75 W), masks  *)
(* of the bottom band that reach above the protected region (so that the   *)
(* envelope they are merged into survives the second deduplication) and    *)
(* masks the filter flags as bottom-protected.                             *)
(***************************************************************************)
PipePool ==
    << NewMask(<<100, 300, 200, 100>>, 20000, <<9, 10>>, <<9, 10>>, <<0, 0>>),
       NewMask(<<100, 600, 100, 400>>, 40000, <<9, 10>>, <<9, 10>>, <<0, 0>>),
       NewMask(<<800, 300, 200, 100>>, 20000, <<9, 10>>, <<9, 10>>, <<0, 0>>),
       NewMask(<<700, 600, 100, 400>>, 40000, <<9, 10>>, <<9, 10>>, <<0, 0>>),
       NewMask(<<100, 820, 200, 100>>, 20000, <<19, 20>>, <<9, 10>>, <<0, 0>>),
       NewMask(<<720, 300, 40, 100>>, 4000, <<9, 10>>, <<9, 10>>, <<0, 0>>),
       NewMask(<<820, 850, 150, 100>>, 15000, <<1, 1>>, <<9, 10>>, <<0, 0>>),
       NewMask(<<400, 500, 400, 50>>, 20000, <<9, 10>>, <<9, 10>>, <<0, 0>>) >>

InitPipe ==
    /\ pc = "filter"
    /\ heap = PipePool
    /\ all_masks \in DistinctSeqs(Len(PipePool), MaxPipeLen)
    /\ overlap_threshold = 30
    /\ gi = NumGenerators + 1
    /\ worker = [g \in Generators |-> "done"]
    /\ q = [g \in Generators |-> <<>>]
    /\ expired = {}
    /\ outcome = [g \in Generators |-> "success"]
    /\ filtered_masks = <<>>
    /\ unique_masks = <<>>
    /\ merged_masks = <<>>
    /\ info_masks = <<>>
    /\ expanded_info_masks = <<>>
    /\ all_final_masks = <<>>
    /\ text_optimized_masks = <<>>
    /\ final_masks_deduped = <<>>
    /\ final_masks = <<>>
    /\ view_info = <<>>
    /\ result = <<>>

NextPipe == PostProcessing

SpecPipe == InitPipe /\ [][NextPipe]_vars

(***************************************************************************)
(*                               CLAIMS                                    *)
(***************************************************************************)
\* the bboxes written to the output, as recorded in view_info
OutputBoxes == [k \in 1..Len(view_info) |-> view_info[k].bbox]

(* C1: the final ranked list of split_image, taken with the bboxes written  *)
(* to the output, is non-overlapping: no two of its regions have an overlap *)
(* ratio above 0.4 and none is contained (> 0.8) in another.                *)
C1_OutputNonOverlapping ==
    pc = "done" =>
        \A a \in 1..Len(view_info) : \A b \in 1..Len(view_info) :
            a # b => /\ ~OverlapExceeds(OutputBoxes[a], OutputBoxes[b], 40)
                     /\ ~IsBboxInside(OutputBoxes[a], OutputBoxes[b])

(* C2: whenever at least one generator pass returned a candidate, the final *)
(* output of split_image holds a region flagged as protected (the bottom    *)
(* band created by create_bottom_info_region, possibly expanded).           *)
C2_ProtectedRegionInOutput ==
    (pc = "done" /\ all_masks # <<>>) =>
        \E k \in 1..Len(view_info) : heap[view_info[k].mask].is_protected

\* quality(m1) >= quality(m2)
QualityAtLeast(m1, m2) == ~QualityLess(m1, m2)

\* some mask of the list lies inside (> 0.8) another mask of the list whose
\* quality is lower or equal
ContainedInLowerQuality(h, masks) ==
    \E a \in 1..Len(masks) : \E b \in 1..Len(masks) :
        /\ a # b
        /\ QualityAtLeast(h[masks[a]], h[masks[b]])
        /\ IsBboxInside(h[masks[a]].bbox, h[masks[b]].bbox)

(* C3 as stated: remove_duplicate_masks is idempotent; applied to its own   *)
(* output with the same threshold it returns the same set of regions.       *)
C3_Idempotent ==
    pc = "dedup_twice" => SeqToSet(final_masks_deduped) = SeqToSet(unique_masks)

(* C3 as amended: remove_duplicate_masks is idempotent on every input list  *)
(* in which no region lies inside (> 0.8) a region of lower or equal        *)
(* quality; applied to its own output it then returns the same list.        *)
C3_IdempotentWithoutContainment ==
    (pc = "dedup_twice" /\ ~ContainedInLowerQuality(heap, all_masks)) =>
        final_masks_deduped = unique_masks

\* a list of three or more masks without such a containment, of which the
\* first pass removed one and kept two or more
C3_Witness ==
    /\ pc = "dedup_twice"
    /\ ~ContainedInLowerQuality(heap, all_masks)
    /\ Len(unique_masks) < Len(all_masks)
    /\ Len(unique_masks) >= 2
    /\ final_masks_deduped = unique_masks

\* the output holds a region of greater or equal quality that overlaps the
\* mask d above the threshold or contains it
HasRepresentative(h, out, d, pct) ==
    \E k \in 1..Len(out) :
        /\ QualityAtLeast(h[out[k]], h[d])
        /\ \/ OverlapExceeds(h[d].bbox, h[out[k]].bbox, pct)
           \/ IsBboxInside(h[d].bbox, h[out[k]].bbox)

\* every discarded mask of the input has a representative in the output
DiscardedAreRepresented ==
    \A a \in 1..Len(all_masks) :
        all_masks[a] \notin SeqToSet(unique_masks) =>
            HasRepresentative(heap, unique_masks, all_masks[a], overlap_threshold)

\* of two regions whose overlap exceeds the threshold exactly one is
\* returned, the one of higher quality
KeepsBetterOfTwo ==
    (/\ Len(all_masks) = 2
     /\ OverlapExceeds(heap[all_masks[1]].bbox, heap[all_masks[2]].bbox,
                       overlap_threshold))
    => /\ Len(unique_masks) = 1
       /\ unique_masks[1] \in SeqToSet(all_masks)
       /\ \A a \in 1..2 : QualityAtLeast(heap[unique_masks[1]], heap[all_masks[a]])

(* C4 as stated: for every input region remove_duplicate_masks discards,    *)
(* its output holds a region of greater or equal quality that overlaps the  *)
(* discarded region above the threshold or contains it; of two regions that *)
(* overlap above the threshold it returns the higher-quality one alone.     *)
C4_KeepsHighestQuality ==
    pc = "dedup_once" => DiscardedAreRepresented /\ KeepsBetterOfTwo

(* C4 as amended: the same, for every input list in which no region lies    *)
(* inside (> 0.8) a region of lower or equal quality; the statement about   *)
(* two overlapping regions holds for every input.                           *)
C4_KeepsHighestQualityWithoutContainment ==
    pc = "dedup_once" =>
        /\ ~ContainedInLowerQuality(heap, all_masks) => DiscardedAreRepresented
        /\ KeepsBetterOfTwo

\* two regions that overlap above the threshold, reduced to the better one
C4_Witness ==
    /\ pc = "dedup_once"
    /\ Len(all_masks) = 2
    /\ OverlapExceeds(heap[all_masks[1]].bbox, heap[all_masks[2]].bbox,
                      overlap_threshold)
    /\ unique_masks = <<all_masks[2]>>
    /\ QualityLess(heap[all_masks[1]], heap[all_masks[2]])

\* no mask of the candidate set was returned by pass g
NoRegionOf(g) ==
    \A k \in 1..Len(all_masks) : heap[all_masks[k]].src[1] # g

\* no stage after the loop has run: the main thread is in the loop or has
\* returned, and no list of a stage and no mask dict exists
NoStageRun ==
    /\ pc \in {"loop", "join", "alive", "done"}
    /\ heap = <<>>
    /\ filtered_masks = <<>> /\ unique_masks = <<>> /\ merged_masks = <<>>
    /\ info_masks = <<>> /\ expanded_info_masks = <<>> /\ all_final_masks = <<>>
    /\ text_optimized_masks = <<>> /\ final_masks_deduped = <<>>
    /\ final_masks = <<>> /\ view_info = <<>>

\* the loop is over and every pass raised, failed, timed out, left its queue
\* empty or returned an empty list
EveryPassYieldsNothing ==
    /\ gi > NumGenerators
    /\ \A g \in Generators : outcome[g] # "success" \/ NoRegionOf(g)

(* C5: if every generator pass fails, times out or returns an empty list,   *)
(* split_image eventually returns an empty list, and no post-processing     *)
(* stage is run on the empty candidate set.                                 *)
C5_AllPassesFailReturnsEmpty ==
    /\ [](EveryPassYieldsNothing => all_masks = <<>> /\ NoStageRun)
    /\ EveryPassYieldsNothing ~> (pc = "done" /\ result = <<>> /\ NoStageRun)

\* the run has returned after one pass timed out and the other returned an
\* empty list
C5_Witness ==
    /\ pc = "done"
    /\ result = <<>>
    /\ EveryPassYieldsNothing
    /\ \E g \in Generators : outcome[g] = "timeout"
    /\ \E g \in Generators : outcome[g] = "success"

(* C6 as stated: if the worker of a pass is still running when the deadline *)
(* elapses (join returns on its timeout), none of that pass's regions ever  *)
(* enters the candidate set.                                                *)
C6_ExpiredPassDiscarded ==
    \A g \in expired : NoRegionOf(g)

(* C6 as amended: if the worker of a pass is still running when the main    *)
(* thread tests thread.is_alive() after the wait, none of that pass's       *)
(* regions ever enters the candidate set, also when the worker completes    *)
(* later; the main thread goes on to the next pass, and the candidate set   *)
(* only grows at its end, so the regions of earlier passes stay.            *)
C6_TimedOutPassDiscarded ==
    /\ [](\A g \in Generators : outcome[g] = "timeout" => NoRegionOf(g))
    /\ [][(gi <= NumGenerators /\ outcome[gi] # "timeout"
                               /\ outcome'[gi] = "timeout")
            => (gi' = gi + 1 /\ pc' = "loop" /\ all_masks' = all_masks)]_vars
    /\ [][/\ Len(all_masks') >= Len(all_masks)
          /\ SubSeq(all_masks', 1, Len(all_masks)) = all_masks]_vars

\* pass 1 timed out and its worker completed with regions while pass 2 was
\* running; pass 2's regions are in the candidate set
C6_Witness ==
    /\ outcome[1] = "timeout"
    /\ worker[1] = "done"
    /\ q[PassQueue(1)] # <<>>
    /\ Head(q[PassQueue(1)]).type = "success"
    /\ Head(q[PassQueue(1)]).masks # <<>>
    /\ outcome[2] = "success"
    /\ all_masks # <<>>
    /\ NoRegionOf(1)

(* C7: the output of the ranker (sort_masks_by_importance(...)[:20]) has at *)
(* most 20 regions and is sorted non-increasing by importance score; when   *)
(* the input has more than 20 regions the 20 kept have the highest scores.  *)
C7_RankerTopTwenty ==
    pc = "rank_output" =>
        LET kept == SeqToSet(final_masks)
            input == SeqToSet(final_masks_deduped)
        IN  /\ Len(final_masks) = Min(Len(final_masks_deduped), MaxOutputRegions)
            /\ Len(final_masks) <= 20
            /\ Cardinality(kept) = Len(final_masks)
            /\ kept \subseteq input
            /\ \A k \in 1..(Len(final_masks) - 1) :
                   ~ImportanceLess(heap[final_masks[k]], heap[final_masks[k + 1]])
            /\ \A d \in input \ kept : \A k \in kept :
                   ~ImportanceLess(heap[k], heap[d])

\* more than 20 regions went in, 20 came out, and a region that was dropped
\* scores lower than the last one kept
C7_Witness ==
    /\ pc = "rank_output"
    /\ Len(final_masks_deduped) > 20
    /\ Len(final_masks) = 20
    /\ \E d \in SeqToSet(final_masks_deduped) \ SeqToSet(final_masks) :
           ImportanceLess(heap[d], heap[final_masks[20]])

\* the bbox lies within the image
InImage(b) ==
    /\ b[1] >= 0 /\ b[2] >= 0
    /\ b[1] + b[3] <= imageWidth /\ b[2] + b[4] <= imageHeight

(* C8: after expand_info_regions every bbox of its output lies within the   *)
(* image: 0 <= x, 0 <= y, x + w <= imageWidth, y + h <= imageHeight.        *)
C8_ExpandedWithinImage ==
    pc = "text" =>
        \A k \in 1..Len(expanded_info_masks) :
            InImage(heap[expanded_info_masks[k]].bbox)

\* the expander has run on a list with a region that is no info region and
\* passed through, and an info region whose expansion was cut at a border of
\* the image
C8_Witness ==
    /\ pc = "text"
    /\ \E k \in 1..Len(expanded_info_masks) :
          /\ ~heap[info_masks[k]].is_info_region
          /\ expanded_info_masks[k] = info_masks[k]
    /\ \E k \in 1..Len(expanded_info_masks) :
          LET m == heap[info_masks[k]]
              e == heap[expanded_info_masks[k]]
          IN  /\ m.is_info_region
              /\ ~m.is_protected
              /\ e.bbox # m.bbox
              /\ e.bbox[1] + e.bbox[3] = imageWidth \/ e.bbox[2] + e.bbox[4] = imageHeight

\* the positions of final_masks whose clamped bbox has w > 0 and h > 0
Writable ==
    {k \in 1..Len(final_masks) :
        LET b == OutputBbox(heap[final_masks[k]].bbox)
        IN  b[3] > 0 /\ b[4] > 0}

(* C9: every bbox written to the output has w > 0 and h > 0 and lies within *)
(* the image; a region whose bbox has non-positive width or height after    *)
(* the clamping is dropped and the loop goes on with the remaining regions. *)
C9_OutputBoxesValid ==
    pc = "done" =>
        /\ \A k \in 1..Len(view_info) :
              /\ view_info[k].bbox[3] > 0 /\ view_info[k].bbox[4] > 0
              /\ InImage(view_info[k].bbox)
        /\ {view_info[k].view_id : k \in 1..Len(view_info)} = Writable
        /\ Len(view_info) = Cardinality(Writable)
        /\ Len(result) = Len(view_info)

\* of three regions the second was dropped for its width or height and the
\* first and the third were written
C9_Witness ==
    /\ pc = "done"
    /\ Len(final_masks) = 3
    /\ Len(view_info) = 2
    /\ view_info[1].view_id = 1
    /\ view_info[2].view_id = 3
    /\ (heap[final_masks[2]].bbox[3] = 0 \/ heap[final_masks[2]].bbox[4] = 0)

\* masks[k] for the positions k of the set, in the order of the list
Members(masks, c) == [k \in 1..Cardinality(c) |-> masks[SetToSortedSeq(c)[k]]]

\* area is the sum of the members' areas and at least each of them
AreaIsSumOf(m, h, ids) ==
    /\ m.area = SumSeq([k \in 1..Len(ids) |-> h[ids[k]].area])
    /\ \A k \in 1..Len(ids) : m.area >= h[ids[k]].area

\* the masks merge_nearby_masks synthesized
Synthesized == {id \in SeqToSet(merged_masks) : id \notin SeqToSet(unique_masks)}

\* the clusters of more than one mask
BigClusters ==
    {c \in SeqToSet(Clusters(heap, unique_masks)) : Cardinality(c) > 1}

\* the hull of the bboxes of the masks
HullOf(h, ids) ==
    LET K == 1..Len(ids)
    IN  <<MinOver([k \in K |-> h[ids[k]].bbox[1]], K),
          MinOver([k \in K |-> h[ids[k]].bbox[2]], K),
          MaxOver([k \in K |-> h[ids[k]].bbox[1] + h[ids[k]].bbox[3]], K),
          MaxOver([k \in K |-> h[ids[k]].bbox[2] + h[ids[k]].bbox[4]], K)>>

\* the merged bottom envelopes among info_masks, and the masks merged
Envelopes == {id \in SeqToSet(info_masks) : "merged_region" \in heap[id].info_type}
BottomMembers == SelectSeq(merged_masks, LAMBDA id : IsBottomMask(heap[id]))

(* C10: the area of a region synthesized by a merge (a cluster of more than *)
(* one mask in merge_nearby_masks, or the bottom envelope) is the sum of    *)
(* the areas of its members and at least the largest of them.               *)
C10_MergedAreaIsSum ==
    /\ pc = "detect" =>
          /\ Cardinality(Synthesized) = Cardinality(BigClusters)
          /\ \A c \in BigClusters : \E id \in Synthesized :
                LET hull == HullOf(heap, Members(unique_masks, c))
                IN  /\ heap[id].bbox = <<hull[1], hull[2],
                                         hull[3] - hull[1], hull[4] - hull[2]>>
                    /\ AreaIsSumOf(heap[id], heap, Members(unique_masks, c))
    /\ pc = "expand" =>
          /\ Cardinality(Envelopes) = (IF BottomMembers = <<>> THEN 0 ELSE 1)
          /\ \A id \in Envelopes : AreaIsSumOf(heap[id], heap, BottomMembers)

\* a cluster of two masks was merged and two bottom masks were merged into
\* the envelope, and neither area is the area of the region's bbox
C10_Witness ==
    /\ pc = "expand"
    /\ \E id \in Synthesized :
          /\ heap[id].area # heap[id].bbox[3] * heap[id].bbox[4]
          /\ \E c \in BigClusters :
                AreaIsSumOf(heap[id], heap, Members(unique_masks, c))
    /\ Len(BottomMembers) >= 2
    /\ \E id \in Envelopes :
          /\ heap[id].area # heap[id].bbox[3] * heap[id].bbox[4]
          /\ AreaIsSumOf(heap[id], heap, BottomMembers)

\* the masks of the list that detect_info_regions takes for bottom
\* candidates and for right candidates: center below 0.75 H (right of
\* 0.75 W), area ratio in (0.002, 0.3)
InAreaWindow(m) ==
    m.area * 1000 > 2 * imageHeight * imageWidth
        /\ m.area * 10 < 3 * imageHeight * imageWidth
BottomCandidates ==
    {k \in 1..Len(merged_masks) :
        LET m == heap[merged_masks[k]]
        IN  2 * m.bbox[2] + m.bbox[4] > 2 * 750 /\ InAreaWindow(m)}
RightCandidates ==
    {k \in 1..Len(merged_masks) :
        LET m == heap[merged_masks[k]]
        IN  /\ k \notin BottomCandidates
            /\ 2 * m.bbox[1] + m.bbox[3] > 2 * 750 /\ InAreaWindow(m)}

\* the entries of info_masks that are flagged as info regions
InfoEntries == {k \in 1..Len(info_masks) : heap[info_masks[k]].is_info_region}

\* the input is the three 20x20 boxes of the scenario, in some order
ScenarioBoxes == SeqToSet(merged_masks) = {1, 2, 3} /\ Len(merged_masks) = 3

(* C11 as stated: for the three 20x20 boxes with centers (900,950),         *)
(* (905,955), (980,990) detect_info_regions builds one bottom_info          *)
(* envelope, and with the protected region the info regions before the      *)
(* expansion are exactly 2.                                                 *)
C11_ScenarioTwoInfoRegions ==
    (pc = "expand" /\ ScenarioBoxes) =>
        /\ Len(info_masks) = 2
        /\ Cardinality(InfoEntries) = 2
        /\ Cardinality(Envelopes) = 1

(* C11 as amended: three boxes whose centers lie below 0.75 H and whose     *)
(* area ratio lies in (0.002, 0.3) are merged into one bottom_info envelope *)
(* and the info regions before the expansion are exactly 2; the three       *)
(* 20x20 boxes (area ratio 0.0004) are not merged and pass through          *)
(* unflagged, so that the list holds 4 entries with 1 info region.          *)
C11_BottomCandidatesMerged ==
    pc = "expand" =>
        /\ Cardinality(Envelopes) = (IF BottomCandidates = {} THEN 0 ELSE 1)
        /\ \A id \in Envelopes :
              /\ heap[id].original_count = Cardinality(BottomCandidates)
              /\ heap[id].info_type = {"bottom_info", "merged_region"}
        /\ \A k \in BottomCandidates : merged_masks[k] \notin SeqToSet(info_masks)
        /\ Cardinality(InfoEntries) =
              Cardinality(Envelopes) + Cardinality(RightCandidates) + 1
        /\ (Cardinality(BottomCandidates) = 3 /\ Len(merged_masks) = 3) =>
              Len(info_masks) = 2 /\ Cardinality(InfoEntries) = 2
        /\ ScenarioBoxes =>
              /\ Len(info_masks) = 4
              /\ Cardinality(InfoEntries) = 1
              /\ Envelopes = {}

\* three 50x50 boxes of the bottom band went in; the envelope and the
\* protected region came out
C11_Witness ==
    /\ pc = "expand"
    /\ SeqToSet(merged_masks) = {4, 5, 6}
    /\ Len(info_masks) = 2
    /\ Cardinality(Envelopes) = 1
    /\ heap[info_masks[2]].is_protected

\* the two mask dicts have the same bbox, area and flags
SameRegion(m1, m2) ==
    /\ m1.bbox = m2.bbox
    /\ m1.area = m2.area
    /\ m1.is_info_region = m2.is_info_region
    /\ m1.info_type = m2.info_type
    /\ m1.is_merged = m2.is_merged
    /\ m1.is_protected = m2.is_protected
    /\ m1.is_bottom_protected = m2.is_bottom_protected
    /\ m1.is_protected_text = m2.is_protected_text
    /\ m1.priority_boost = m2.priority_boost
    /\ m1.text_optimized = m2.text_optimized

\* the step leaves every mask of the list as it was
LeftAsWas(masks) ==
    \A k \in 1..Len(masks) : SameRegion(heap'[masks[k]], heap[masks[k]])

(* C12: no stage mutates in place a region of its input list: after         *)
(* filter_masks_by_engineering_criteria, detect_info_regions,               *)
(* expand_info_regions and post_process_text_regions return, every region   *)
(* of the stage's input list has the bbox, area and flags it had before.    *)
C12_NoInPlaceMutation ==
    [][/\ pc = "filter" => LeftAsWas(all_masks)
       /\ pc = "detect" => LeftAsWas(merged_masks)
       /\ pc = "expand" => LeftAsWas(info_masks)
       /\ pc = "text" => LeftAsWas(all_final_masks)]_vars

\* areaRatio in [lo, hi] (per mille) and aspect <= a
WithinBounds(m, lo, hi, a) ==
    /\ m.area * 1000 >= lo * imageHeight * imageWidth
    /\ m.area * 1000 <= hi * imageHeight * imageWidth
    /\ Max(m.bbox[3], m.bbox[4]) <= a * Max(Min(m.bbox[3], m.bbox[4]), 1)

\* the bounds of the zone, the info band taken at the center of the region
WithinZoneByCenter(m) ==
    IF m.bbox[2] * 10 > 8 * imageHeight THEN WithinBounds(m, 8, 500, 8)
    ELSE IF \/ (2 * m.bbox[2] + m.bbox[4]) * 10 > 2 * 7 * imageHeight
            \/ (2 * m.bbox[1] + m.bbox[3]) * 10 > 2 * 7 * imageWidth
    THEN WithinBounds(m, 2, 300, 25)
    ELSE WithinBounds(m, 3, 700, 15)

\* the bounds of the zone, the info band taken at the top-left corner
WithinZoneByCorner(m) ==
    IF m.bbox[2] * 10 > 8 * imageHeight THEN WithinBounds(m, 8, 500, 8)
    ELSE IF m.bbox[2] * 10 > 7 * imageHeight \/ m.bbox[1] * 10 > 7 * imageWidth
    THEN WithinBounds(m, 2, 300, 25)
    ELSE WithinBounds(m, 3, 700, 15)

\* the 10x500 box of the main body is not among the survivors
TallBoxDropped == \A k \in 1..Len(filtered_masks) : filtered_masks[k] # 1

(* C13 as stated: every region that survives the filter satisfies the area  *)
(* and aspect bounds of its zone, the zone being other-info when the        *)
(* region's center lies in the band cy > 0.70 H or cx > 0.70 W; a 10x500    *)
(* box of the main body is dropped.                                         *)
C13_SurvivorsWithinZoneByCenter ==
    pc = "dedup1" =>
        /\ \A k \in 1..Len(filtered_masks) :
              WithinZoneByCenter(heap[filtered_masks[k]])
        /\ TallBoxDropped

(* C13 as amended: the same with the zone being other-info when the         *)
(* region's top-left corner lies in the band: y > 0.70 H or x > 0.70 W.     *)
C13_SurvivorsWithinZoneByCorner ==
    pc = "dedup1" =>
        /\ \A k \in 1..Len(filtered_masks) :
              WithinZoneByCorner(heap[filtered_masks[k]])
        /\ TallBoxDropped

\* the 10x500 box went in with a mask of the right band; the box was
\* dropped and the mask of the right band survived
C13_Witness ==
    /\ pc = "dedup1"
    /\ all_masks = <<1, 5>>
    /\ filtered_masks = <<5>>

\* the mask passes the area, aspect and compactness tests of the filter
PassesShapeTests(m) == AreaRatioOk(m) /\ AspectOk(m) /\ CompactnessOk(m)

\* the filter classifies the mask as info region (bottom or right band)
ClassifiedInfo(m) ==
    m.bbox[2] * 10 > 7 * imageHeight \/ m.bbox[1] * 10 > 7 * imageWidth

Survives(i) == \E k \in 1..Len(filtered_masks) : filtered_masks[k] = i

(* C14 as stated: an info region that passes the area, aspect and           *)
(* compactness tests is never dropped for touching the left or top margin;  *)
(* a non-info region with x < 10 or y < 10 that passes them is dropped      *)
(* exactly when its area does not exceed 5% of the image area.              *)
C14_EdgeRuleNonInfoOnly ==
    pc = "dedup1" =>
        \A k \in 1..Len(all_masks) :
            LET i == all_masks[k]
                m == heap[i]
            IN  PassesShapeTests(m) =>
                  /\ ClassifiedInfo(m) => Survives(i)
                  /\ (~ClassifiedInfo(m)
                        /\ (m.bbox[1] < 10 \/ m.bbox[2] < 10)) =>
                       (~Survives(i) <=>
                            m.area * 100 <= 5 * imageHeight * imageWidth)

(* C14 as amended: info regions are exempt at the left margin only.  A      *)
(* region that passes the area, aspect and compactness tests is dropped     *)
(* exactly when (x < 10 and it is not an info region, or y < 10) and its    *)
(* area is strictly below 5% of the image area.                             *)
C14_EdgeRuleInfoExemptAtLeft ==
    pc = "dedup1" =>
        \A k \in 1..Len(all_masks) :
            LET i == all_masks[k]
                m == heap[i]
            IN  PassesShapeTests(m) =>
                  (~Survives(i) <=>
                      /\ \/ m.bbox[1] < 10 /\ ~ClassifiedInfo(m)
                         \/ m.bbox[2] < 10
                      /\ m.area * 100 < 5 * imageHeight * imageWidth)

\* an info region of 2.25% of the image at the top margin, an info region
\* of 2% at the left margin and a non-info region of exactly 5% at the left
\* margin: the first is dropped, the other two survive
C14_Witness ==
    /\ pc = "dedup1"
    /\ \/ all_masks = <<8, 15>> /\ filtered_masks = <<15>>
       \/ all_masks = <<8, 12>> /\ filtered_masks = <<12>>

\* the region as it would be had the filter attached no boost to it
WithoutBoost(m) == [m EXCEPT !.priority_boost = 0]

(* C15: the priority boost the filter attaches (1.5 bottomProtected, 1.3    *)
(* protectedText) is consumed by the ranker: a region that carries a boost  *)
(* scores strictly higher than the region that is identical except that it  *)
(* carries no boost.                                                        *)
C15_BoostRaisesScore ==
    pc = "save" =>
        \A k \in 1..Len(final_masks_deduped) :
            LET m == heap[final_masks_deduped[k]]
            IN  m.priority_boost > 0 => ImportanceLess(WithoutBoost(m), m)

\* the region carries one of the info flags: bottomInfo, rightInfo or the
\* bottomProtected flag of the filter
HasInfoFlag(m) ==
    \/ "bottom_info" \in m.info_type
    \/ "right_info" \in m.info_type
    \/ m.is_bottom_protected

\* the multiplier (times 1000) of the one path the claim selects
PathMultiplier(m) ==
    IF m.is_protected THEN 3000
    ELSE IF m.is_merged THEN 2500
    ELSE IF HasInfoFlag(m)
    THEN (18 * (IF "bottom_info" \in m.info_type THEN 14 ELSE 10)
             * (IF m.is_bottom_protected THEN 16 ELSE 10) * 1000) \div 1000
    ELSE 1000

Occurrences(list, id) == Cardinality({k \in 1..Len(list) : list[k] = id})

\* the masks the detector took as bottom candidates and merged
MergedBottomCandidates ==
    {merged_masks[k] : k \in {j \in 1..Len(merged_masks) :
                                  IsBottomMask(heap[merged_masks[j]])}}

(* C17: in the list handed to the text refiner every region emitted by the  *)
(* detector / expander appears exactly once and no bottom candidate that    *)
(* was merged into the bottom envelope appears individually; the refiner    *)
(* applies its expansion to any one region at most once.                    *)
C17_RefinerInputHoldsEachRegionOnce ==
    [][pc = "text" =>
         /\ \A k \in 1..Len(expanded_info_masks) :
               Occurrences(all_final_masks, expanded_info_masks[k]) = 1
         /\ \A id \in MergedBottomCandidates :
               Occurrences(all_final_masks, id) = 0
         /\ \A id \in DOMAIN heap :
               heap'[id] \in {heap[id], TextOptimize(heap[id])}]_vars

=============================================================================
